---- MODULE Spec2Model ----
(***************************************************************************)
(* A model of the rainfall ingestion pipeline (data_processor.py) and of   *)
(* the aggregation engine (analyzer.py).                                   *)
(*                                                                         *)
(* Encoding of Python values:                                              *)
(*   - a dict is a function from its keys (strings) to its values; a key   *)
(*     that is absent from the dict is absent from the function's DOMAIN;  *)
(*   - a list is a sequence;                                               *)
(*   - a value that is not a dict (None, a JSON string) is a record with   *)
(*     the single field pytype, which no dict of the payload uses as key;  *)
(*   - a DataFrame is the sequence of its rows, each row a record whose    *)
(*     DOMAIN is the set of columns; pd.DataFrame() is the empty sequence; *)
(*   - rainfall is an integer number of tenths of a millimetre, a          *)
(*     coordinate an integer number of thousandths of a degree, a mean a   *)
(*     fraction [num, den] compared by cross-multiplication (exact         *)
(*     arithmetic: floating-point rounding is outside the model);          *)
(*   - a raised exception is the outcome [raised |-> TRUE, ...].           *)
(***************************************************************************)
EXTENDS Integers, Sequences, FiniteSets, TLC

VARIABLES
    upstream,       \* what the API serves: [d: logical data, n: field naming]
    api_response,   \* the payload last handed to the processor
    stations_info,  \* RainfallDataProcessor.stations_info
    last_call,      \* the operation that ran last
    returned,       \* its outcome: [raised, df]
    fetches,        \* number of payloads fetched so far
    heap,           \* DataFrame objects by reference
    self_data,      \* RainfallAnalyzer.data: a reference, "none" before construction
    result          \* outcome of the last analyzer operation

vars == <<upstream, api_response, stations_info, last_call, returned, fetches,
          heap, self_data, result>>

(***************************************************************************)
(* Bounds of the model.                                                    *)
(***************************************************************************)
MaxStations == 2
MaxBuckets == 2
MaxPoints == 2
MaxFetches == 1
MaxAliasDeviations == 1
MaxN == 2
MaxPolls == 2

(***************************************************************************)
(* Python values.                                                          *)
(***************************************************************************)
None == [pytype |-> "NoneType"]
NotADict == [pytype |-> "str"]
EmptyDict == <<>>
IsDict(v) == "pytype" \notin DOMAIN v

\* dict.get(key, default)
Get(d, k, default) == IF k \in DOMAIN d THEN d[k] ELSE default

\* d[key] = value
Put(d, k, v) == [x \in DOMAIN d \cup {k} |-> IF x = k THEN v ELSE d[x]]

\* `not x` for a payload: None and the empty dict are falsy
Falsy(v) == IF IsDict(v) THEN DOMAIN v = {} ELSE TRUE

\* all sequences over S of length at most n
SeqsUpTo(S, n) == UNION {[1..k -> S] : k \in 0..n}

RECURSIVE SumSeq(_)
SumSeq(s) == IF s = <<>> THEN 0 ELSE Head(s) + SumSeq(Tail(s))

(***************************************************************************)
(* The upstream API.  A payload is a set of logical data rendered under a  *)
(* field naming: which alias the upstream uses for each logical field.     *)
(***************************************************************************)
IdAliases == {"id", "stationId", "station_id"}
LocationAliases == {"labelLocation", "location", "coordinates"}
LatitudeAliases == {"latitude", "lat"}
LongitudeAliases == {"longitude", "lng", "lon"}
TimestampAliases == {"timestamp", "time"}
ValueAliases == {"value", "rainfall"}

\* the naming of the live API (test_api.py reads 'id', 'name', 'timestamp')
Primary ==
    [sid |-> "id", loc |-> "labelLocation", lat |-> "latitude",
     lon |-> "longitude", ts |-> "timestamp", rid |-> "stationId",
     val |-> "value"]

AllNamings ==
    [sid : IdAliases, loc : LocationAliases, lat : LatitudeAliases,
     lon : LongitudeAliases, ts : TimestampAliases, rid : IdAliases,
     val : ValueAliases]

Deviations(n) == {f \in DOMAIN Primary : n[f] # Primary[f]}

Namings == {n \in AllNamings : Cardinality(Deviations(n)) <= MaxAliasDeviations}

\* timestamps as the API writes them
TsNov == "2026-11-01T00:05:00+08:00"
TsOct == "2026-10-31T23:55:00+08:00"
TsGarbage == "not-a-timestamp"

\* logical station entries: S2 lies within 0.01 degree of S1 and has no name
StationA == [id |-> "S1", name |-> "Alpha", lat |-> 1300, lon |-> 103800]
StationB == [id |-> "S2", lat |-> 1304, lon |-> 103802]
LogicalStations == {StationA, StationB, NotADict}

\* logical per-station reading values
LogicalPoints == {[id |-> "S1", value |-> 35], [id |-> "S2", value |-> 5], NotADict}

\* the buckets of k per-station values: an optional timestamp and the values
LogicalBuckets(k) ==
    LET pts == [1..k -> LogicalPoints]
    IN  {[ts |-> t, points |-> p] : t \in {TsNov, TsOct, TsGarbage}, p \in pts}
        \cup {[points |-> p] : p \in pts}

\* the readings of at most b buckets holding at most p values in all
RECURSIVE ReadingsUpTo(_, _)
ReadingsUpTo(b, p) ==
    IF b = 0 THEN {<<>>}
    ELSE {<<>>} \cup UNION {{<<bucket>> \o rest : bucket \in LogicalBuckets(k),
                                                  rest \in ReadingsUpTo(b - 1, p - k)} :
                            k \in 1..p}

LogicalReadings == ReadingsUpTo(MaxBuckets, MaxPoints)

LogicalData ==
    [stations : SeqsUpTo(LogicalStations, MaxStations), readings : LogicalReadings]

\* data in which every logical field is present, to exercise every alias
AliasData ==
    {[stations |-> <<StationA>>,
      readings |-> <<[ts |-> TsNov, points |-> <<[id |-> "S1", value |-> 35]>>]>>],
     [stations |-> <<StationA, [StationB EXCEPT !.lat = 1350]>>,
      readings |-> <<[ts |-> TsOct, points |-> <<[id |-> "S2", value |-> 5]>>]>>]}

Upstream ==
    {[kind |-> "payload", d |-> d, n |-> Primary] : d \in LogicalData}
    \cup {[kind |-> "payload", d |-> d, n |-> n] : d \in AliasData, n \in Namings}
    \cup {[kind |-> k] : k \in {"failed", "empty", "nulldata", "nocollections"}}

RenderStation(s, n) ==
    IF ~IsDict(s) THEN s
    ELSE LET location == [k \in {n.lat, n.lon} |-> IF k = n.lat THEN s.lat ELSE s.lon]
             keys == (IF "id" \in DOMAIN s THEN {n.sid} ELSE {})
                     \cup (IF "name" \in DOMAIN s THEN {"name"} ELSE {})
                     \cup (IF "lat" \in DOMAIN s THEN {n.loc} ELSE {})
         IN  [k \in keys |-> IF k = n.sid THEN s.id
                             ELSE IF k = "name" THEN s.name ELSE location]

RenderPoint(p, n) ==
    IF ~IsDict(p) THEN p
    ELSE LET keys == (IF "id" \in DOMAIN p THEN {n.rid} ELSE {})
                     \cup (IF "value" \in DOMAIN p THEN {n.val} ELSE {})
         IN  [k \in keys |-> IF k = n.rid THEN p.id ELSE p.value]

RenderBucket(b, n) ==
    LET points == [i \in 1..Len(b.points) |-> RenderPoint(b.points[i], n)]
        keys == (IF "ts" \in DOMAIN b THEN {n.ts} ELSE {}) \cup {"data"}
    IN  [k \in keys |-> IF k = "data" THEN points ELSE b.ts]

Render(d, n) ==
    [data |->
        [stations |-> [i \in 1..Len(d.stations) |-> RenderStation(d.stations[i], n)],
         readings |-> [i \in 1..Len(d.readings) |-> RenderBucket(d.readings[i], n)]]]

\* what fetch_data returns: the parsed payload, or None when the request failed
Response(u) ==
    CASE u.kind = "failed" -> None
      [] u.kind = "empty" -> EmptyDict
      [] u.kind = "nulldata" -> [data |-> None]
      [] u.kind = "nocollections" -> [data |-> EmptyDict]
      [] u.kind = "raw" -> u.payload
      [] OTHER -> Render(u.d, u.n)

(***************************************************************************)
(* What the API serves to a processor that is kept and polled again: a few *)
(* payloads that differ in the stations they list, payloads whose entries  *)
(* carry no identifier or the identifier "unknown", and a payload whose    *)
(* entries carry two identifier aliases at once.                           *)
(***************************************************************************)
PointS1 == [id |-> "S1", value |-> 35]
PointS2 == [id |-> "S2", value |-> 5]

\* payloads listing none, one or both stations, with values for S1 and S2
StationLists == {<<>>, <<StationA>>, <<StationB>>, <<StationA, StationB>>}
PointLists == {<<PointS1>>, <<PointS1, PointS2>>}

\* two station entries and a value without identifier
AnonymousData ==
    [stations |-> <<[name |-> "Alpha", lat |-> 1300, lon |-> 103800],
                    [lat |-> 1304, lon |-> 103802]>>,
     readings |-> <<[ts |-> TsNov, points |-> <<[value |-> 35]>>]>>]

\* the logical data in which every entry without identifier has the
\* identifier "unknown" upstream
WithLiteralUnknown(d) ==
    [stations |-> [i \in 1..Len(d.stations) |->
                      IF IsDict(d.stations[i]) /\ "id" \notin DOMAIN d.stations[i]
                      THEN Put(d.stations[i], "id", "unknown") ELSE d.stations[i]],
     readings |-> [i \in 1..Len(d.readings) |->
                      [d.readings[i] EXCEPT !.points =
                          [j \in 1..Len(@) |->
                              IF IsDict(@[j]) /\ "id" \notin DOMAIN @[j]
                              THEN Put(@[j], "id", "unknown") ELSE @[j]]]]]

PolledData ==
    {[stations |-> s, readings |-> <<[ts |-> TsNov, points |-> p]>>] :
        s \in StationLists, p \in PointLists}
    \cup {AnonymousData, WithLiteralUnknown(AnonymousData)}

\* a station entry and a reading value that name the station under 'id'
\* and under 'stationId' at once, with different values
TwoAliasPayload ==
    [data |->
        [stations |-> <<[id |-> "S1", stationId |-> "S2", name |-> "Alpha",
                         labelLocation |-> [latitude |-> 1300, longitude |-> 103800]]>>,
         readings |-> <<[timestamp |-> TsNov,
                         data |-> <<[id |-> "S1", stationId |-> "S2", value |-> 35]>>]>>]]

Polled ==
    {[kind |-> "payload", d |-> d, n |-> Primary] : d \in PolledData}
    \cup {[kind |-> "raw", payload |-> TwoAliasPayload]}
    \cup {[kind |-> k] : k \in {"failed", "empty", "nulldata", "nocollections"}}

(***************************************************************************)
(* pandas values.                                                          *)
(***************************************************************************)
NaT == [nat |-> TRUE]
NaN == -1

\* the instants the timestamps of the model denote, at face value
Calendar ==
    [t \in {TsNov, TsOct} |->
        IF t = TsNov
        THEN [year |-> 2026, month |-> 11, day |-> 1, hour |-> 0, minute |-> 5]
        ELSE [year |-> 2026, month |-> 10, day |-> 31, hour |-> 23, minute |-> 55]]

\* pd.to_datetime: '' gives NaT, an unparsable string raises
to_datetime(text) ==
    IF text = "" THEN [raised |-> FALSE, value |-> NaT]
    ELSE IF text \in DOMAIN Calendar THEN [raised |-> FALSE, value |-> Calendar[text]]
    ELSE [raised |-> TRUE, value |-> NaT]

\* Series.dt.hour and Series.dt.date
dt_hour(ts) == IF ts = NaT THEN NaN ELSE ts.hour
dt_date(ts) == IF ts = NaT THEN NaT ELSE [year |-> ts.year, month |-> ts.month, day |-> ts.day]

\* DataFrame.empty: no rows, or no columns
Empty(df) == Len(df) = 0 \/ \A i \in 1..Len(df) : DOMAIN df[i] = {}

Columns(df) == IF Len(df) = 0 THEN {} ELSE DOMAIN df[1]

(***************************************************************************)
(* RainfallDataProcessor.                                                  *)
(***************************************************************************)
\* the loop of process_stations over the station entries, on stations_info
RECURSIVE StationsLoop(_, _)
StationsLoop(stations, info) ==
    IF Len(stations) = 0 THEN [raised |-> FALSE, info |-> info]
    ELSE LET station == Head(stations) IN
         IF ~IsDict(station) THEN [raised |-> TRUE, info |-> info]
         ELSE LET station_id == Get(station, "id", Get(station, "stationId", "unknown"))
                  location_info ==
                      IF "labelLocation" \in DOMAIN station THEN station["labelLocation"]
                      ELSE IF "location" \in DOMAIN station THEN station["location"]
                      ELSE IF "coordinates" \in DOMAIN station THEN station["coordinates"]
                      ELSE EmptyDict
              IN  IF ~IsDict(location_info) THEN [raised |-> TRUE, info |-> info]
                  ELSE StationsLoop(Tail(stations),
                         Put(info, station_id,
                             [name |-> Get(station, "name", "Station_" \o station_id),
                              latitude |-> Get(location_info, "latitude",
                                               Get(location_info, "lat", 0)),
                              longitude |-> Get(location_info, "longitude",
                                                Get(location_info, "lng",
                                                    Get(location_info, "lon", 0)))]))

\* process_stations: the outcome and stations_info afterwards
process_stations(response, info) ==
    IF Falsy(response) \/ "data" \notin DOMAIN response
    THEN [raised |-> FALSE, df |-> <<>>, info |-> info]
    ELSE IF ~IsDict(response["data"])
    THEN [raised |-> TRUE, df |-> <<>>, info |-> info]
    ELSE LET stations == Get(response["data"], "stations", <<>>) IN
         IF Len(stations) = 0 THEN [raised |-> FALSE, df |-> <<>>, info |-> info]
         ELSE LET loop == StationsLoop(stations, info) IN
              IF loop.raised THEN [raised |-> TRUE, df |-> <<>>, info |-> loop.info]
              ELSE [raised |-> FALSE, df |-> stations, info |-> loop.info]

\* the inner loop of process_readings over one bucket's data points
RECURSIVE PointsLoop(_, _, _, _)
PointsLoop(data_points, timestamp, info, processed_data) ==
    IF Len(data_points) = 0 THEN [raised |-> FALSE, rows |-> processed_data]
    ELSE LET data_point == Head(data_points) IN
         IF ~IsDict(data_point) THEN [raised |-> TRUE, rows |-> processed_data]
         ELSE LET station_id == Get(data_point, "stationId",
                                    Get(data_point, "station_id",
                                        Get(data_point, "id", "unknown")))
                  rainfall_value == Get(data_point, "value", Get(data_point, "rainfall", 0))
                  station_info == Get(info, station_id, EmptyDict)
                  parsed == to_datetime(timestamp)
              IN  IF parsed.raised THEN [raised |-> TRUE, rows |-> processed_data]
                  ELSE PointsLoop(Tail(data_points), timestamp, info,
                         Append(processed_data,
                            [timestamp |-> parsed.value,
                             station_id |-> station_id,
                             station_name |-> Get(station_info, "name", "Station_" \o station_id),
                             latitude |-> Get(station_info, "latitude", 0),
                             longitude |-> Get(station_info, "longitude", 0),
                             rainfall_mm |-> rainfall_value]))

\* the outer loop of process_readings over the buckets
RECURSIVE ReadingsLoop(_, _, _)
ReadingsLoop(readings, info, processed_data) ==
    IF Len(readings) = 0 THEN [raised |-> FALSE, rows |-> processed_data]
    ELSE LET reading == Head(readings) IN
         IF ~IsDict(reading) THEN [raised |-> TRUE, rows |-> processed_data]
         ELSE LET timestamp == Get(reading, "timestamp", Get(reading, "time", ""))
                  data_points == Get(reading, "data", <<>>)
                  inner == PointsLoop(data_points, timestamp, info, processed_data)
              IN  IF inner.raised THEN inner
                  ELSE ReadingsLoop(Tail(readings), info, inner.rows)

\* df['hour'] = df['timestamp'].dt.hour; df['date'] = df['timestamp'].dt.date
WithDerived(rows) ==
    [i \in 1..Len(rows) |->
        [timestamp |-> rows[i].timestamp,
         station_id |-> rows[i].station_id,
         station_name |-> rows[i].station_name,
         latitude |-> rows[i].latitude,
         longitude |-> rows[i].longitude,
         rainfall_mm |-> rows[i].rainfall_mm,
         hour |-> dt_hour(rows[i].timestamp),
         date |-> dt_date(rows[i].timestamp)]]

\* process_readings that looks no station up: every row takes the fallback
process_readings_unjoined(response, info) ==
    IF Falsy(response) \/ "data" \notin DOMAIN response
    THEN [raised |-> FALSE, df |-> <<>>]
    ELSE IF ~IsDict(response["data"])
    THEN [raised |-> TRUE, df |-> <<>>]
    ELSE LET readings == Get(response["data"], "readings", <<>>) IN
         IF Len(readings) = 0 THEN [raised |-> FALSE, df |-> <<>>]
         ELSE LET loop == ReadingsLoop(readings, EmptyDict, <<>>) IN
              IF loop.raised THEN [raised |-> TRUE, df |-> <<>>]
              ELSE [raised |-> FALSE, df |-> WithDerived(loop.rows)]

\* process_readings: the outcome; stations_info is only read
process_readings(response, info) ==
    IF Falsy(response) \/ "data" \notin DOMAIN response
    THEN [raised |-> FALSE, df |-> <<>>]
    ELSE IF ~IsDict(response["data"])
    THEN [raised |-> TRUE, df |-> <<>>]
    ELSE LET readings == Get(response["data"], "readings", <<>>) IN
         IF Len(readings) = 0 THEN [raised |-> FALSE, df |-> <<>>]
         ELSE LET loop == ReadingsLoop(readings, info, <<>>) IN
              IF loop.raised THEN [raised |-> TRUE, df |-> <<>>]
              ELSE [raised |-> FALSE, df |-> WithDerived(loop.rows)]

\* get_all_data on the response fetch_data returned
get_all_data(response, info) ==
    IF Falsy(response) THEN [raised |-> FALSE, df |-> <<>>, info |-> info]
    ELSE LET st == process_stations(response, info) IN
         IF st.raised THEN [raised |-> TRUE, df |-> <<>>, info |-> st.info]
         ELSE IF Empty(st.df) THEN [raised |-> FALSE, df |-> <<>>, info |-> st.info]
         ELSE LET rd == process_readings(response, st.info)
              IN  [raised |-> rd.raised, df |-> rd.df, info |-> st.info]

(***************************************************************************)
(* pandas aggregation.                                                     *)
(***************************************************************************)
Frac(n, d) == [num |-> n, den |-> d]
Zero == Frac(0, 1)
NaNFrac == Frac(0, 0)
IsNaN(a) == a.den = 0
FracGT(a, b) == ~IsNaN(a) /\ ~IsNaN(b) /\ a.num * b.den > b.num * a.den
FracEQ(a, b) == ~IsNaN(a) /\ ~IsNaN(b) /\ a.num * b.den = b.num * a.den
FracMul(a, b) == Frac(a.num * b.num, a.den * b.den)
FracSub(a, b) == Frac(a.num * b.den - b.num * a.den, a.den * b.den)

\* Series.sum, Series.mean, Series.var (ddof = 1) of a column over rows
Sum(rows, col) == SumSeq([i \in 1..Len(rows) |-> rows[i][col]])
Mean(rows, col) == IF Len(rows) = 0 THEN NaNFrac ELSE Frac(Sum(rows, col), Len(rows))
Var(rows, col) ==
    IF Len(rows) < 2 THEN NaNFrac
    ELSE Frac(Len(rows) * SumSeq([i \in 1..Len(rows) |-> rows[i][col] * rows[i][col]])
                - Sum(rows, col) * Sum(rows, col),
              Len(rows) * (Len(rows) - 1))

\* the order of Python strings on the strings of the model
StringOrder ==
    <<"Alpha", "S1", "S2", "Station_S1", "Station_S2", "Station_unknown", "unknown">>
Rank(str) == CHOOSE i \in 1..Len(StringOrder) : StringOrder[i] = str

LexLess(a, b) ==
    \E i \in 1..Len(a) : a[i] < b[i] /\ \A j \in 1..(i - 1) : a[j] = b[j]

RECURSIVE SortKeys(_)
SortKeys(S) ==
    IF S = {} THEN <<>>
    ELSE LET m == CHOOSE x \in S : \A y \in S \ {x} : LexLess(x, y)
         IN  <<m>> \o SortKeys(S \ {m})

\* the group key of a row as a tuple ordered like the key: strings by their
\* rank, numbers by their value
KeyOf(r, by) ==
    CASE by = "station" -> <<Rank(r.station_id), Rank(r.station_name)>>
      [] by = "nearby" -> <<r.lat_group, r.lon_group>>
      [] by = "hour" -> <<r.hour>>

\* DataFrame.groupby(by): the groups in ascending key order, rows with a
\* missing key value dropped
GroupBy(rows, by) ==
    LET keys == {k \in {KeyOf(rows[i], by) : i \in 1..Len(rows)} :
                    \A j \in 1..Len(k) : k[j] # NaN}
        sorted == SortKeys(keys)
    IN  [g \in 1..Len(sorted) |-> SelectSeq(rows, LAMBDA r : KeyOf(r, by) = sorted[g])]

RemoveAt(s, i) == [j \in 1..(Len(s) - 1) |-> IF j < i THEN s[j] ELSE s[j + 1]]

\* DataFrame.nlargest(n, 'total_rainfall'): descending, ties in table order
RECURSIVE nlargest(_, _)
nlargest(rows, n) ==
    IF n <= 0 \/ Len(rows) = 0 THEN <<>>
    ELSE LET i == CHOOSE i \in 1..Len(rows) :
                    /\ \A j \in 1..Len(rows) : rows[j].total_rainfall <= rows[i].total_rainfall
                    /\ \A j \in 1..(i - 1) : rows[j].total_rainfall < rows[i].total_rainfall
         IN  <<rows[i]>> \o nlargest(RemoveAt(rows, i), n - 1)

\* DataFrame.nsmallest(n, 'total_rainfall'): ascending, ties in table order
RECURSIVE nsmallest(_, _)
nsmallest(rows, n) ==
    IF n <= 0 \/ Len(rows) = 0 THEN <<>>
    ELSE LET i == CHOOSE i \in 1..Len(rows) :
                    /\ \A j \in 1..Len(rows) : rows[j].total_rainfall >= rows[i].total_rainfall
                    /\ \A j \in 1..(i - 1) : rows[j].total_rainfall > rows[i].total_rainfall
         IN  <<rows[i]>> \o nsmallest(RemoveAt(rows, i), n - 1)

\* Series.round(2) of a coordinate: thousandths to hundredths, half to even
Round2(x) ==
    LET q == x \div 10
        r == x % 10
    IN  IF r < 5 THEN q ELSE IF r > 5 THEN q + 1 ELSE IF q % 2 = 0 THEN q ELSE q + 1

(***************************************************************************)
(* RainfallAnalyzer.  Each method is an operator of the table self.data    *)
(* refers to; it yields the value returned (or raised) and, where the      *)
(* method writes to self.data, the table afterwards.                       *)
(***************************************************************************)
CanonicalColumns ==
    {"timestamp", "station_id", "station_name", "latitude", "longitude",
     "rainfall_mm", "hour", "date"}

\* (variant of __init__ that keeps the caller's object: self.data = data)
RainfallAnalyzerAliased(h, data) == [heap |-> h, self_data |-> data]

\* __init__: self.data = data.copy() if not data.empty else pd.DataFrame()
\* a new object under reference "copy"; the caller's object is only read
RainfallAnalyzer(h, data) ==
    [heap |-> [h EXCEPT !["copy"] = IF ~Empty(h[data]) THEN h[data] ELSE <<>>],
     self_data |-> "copy"]

\* self.data['lat_group'] = ...round(2); self.data['lon_group'] = ...round(2)
WithGroupColumns(data) ==
    [i \in 1..Len(data) |->
        [c \in DOMAIN data[i] \cup {"lat_group", "lon_group"} |->
            IF c = "lat_group" THEN Round2(data[i].latitude)
            ELSE IF c = "lon_group" THEN Round2(data[i].longitude)
            ELSE data[i][c]]]

\* groupby(['station_id', 'station_name']).agg(...).reset_index()
StationGroups(data) ==
    LET groups == GroupBy(data, "station")
    IN  [g \in 1..Len(groups) |->
            [station_id |-> groups[g][1].station_id,
             station_name |-> groups[g][1].station_name,
             total_rainfall |-> Sum(groups[g], "rainfall_mm"),
             avg_rainfall |-> Mean(groups[g], "rainfall_mm"),
             reading_count |-> Len(groups[g]),
             latitude |-> Mean(groups[g], "latitude"),
             longitude |-> Mean(groups[g], "longitude")]]

\* groupby(['lat_group', 'lon_group']).agg(...).reset_index()
NearbyGroups(data) ==
    LET groups == GroupBy(data, "nearby")
    IN  [g \in 1..Len(groups) |->
            [lat_group |-> groups[g][1].lat_group,
             lon_group |-> groups[g][1].lon_group,
             total_rainfall |-> Sum(groups[g], "rainfall_mm"),
             avg_rainfall |-> Mean(groups[g], "rainfall_mm"),
             reading_count |-> Len(groups[g]),
             station_name |-> groups[g][1].station_name,
             latitude |-> Mean(groups[g], "latitude"),
             longitude |-> Mean(groups[g], "longitude")]]

get_top_rainfall_areas(data, n, group_nearby) ==
    IF Empty(data) THEN [raised |-> FALSE, data |-> data, value |-> <<>>]
    ELSE IF ~(CanonicalColumns \subseteq Columns(data))
    THEN [raised |-> TRUE, data |-> data, value |-> <<>>]
    ELSE IF group_nearby
    THEN [raised |-> FALSE, data |-> WithGroupColumns(data),
          value |-> nlargest(NearbyGroups(WithGroupColumns(data)), n)]
    ELSE [raised |-> FALSE, data |-> data, value |-> nlargest(StationGroups(data), n)]

get_lowest_rainfall_areas(data, n) ==
    IF Empty(data) THEN [raised |-> FALSE, value |-> <<>>]
    ELSE IF ~(CanonicalColumns \subseteq Columns(data))
    THEN [raised |-> TRUE, value |-> <<>>]
    ELSE [raised |-> FALSE, value |-> nsmallest(StationGroups(data), n)]

\* std_rainfall holds the square of the sample standard deviation
get_hourly_distribution(data) ==
    IF Empty(data) THEN [raised |-> FALSE, value |-> <<>>]
    ELSE IF ~(CanonicalColumns \subseteq Columns(data))
    THEN [raised |-> TRUE, value |-> <<>>]
    ELSE LET groups == GroupBy(data, "hour")
         IN  [raised |-> FALSE,
              value |-> [g \in 1..Len(groups) |->
                  [hour |-> groups[g][1].hour,
                   total_rainfall |-> Sum(groups[g], "rainfall_mm"),
                   avg_rainfall |-> Mean(groups[g], "rainfall_mm"),
                   reading_count |-> Len(groups[g]),
                   std_rainfall |-> Var(groups[g], "rainfall_mm")]]]

\* the wall-clock months datetime.now() may fall in
Clock == {[year |-> 2026, month |-> 11], [year |-> 2026, month |-> 12]}

\* (variant of get_monthly_average without the check of self.data.empty)
get_monthly_average_unguarded(data, now) ==
    IF ~(CanonicalColumns \subseteq Columns(data))
    THEN [raised |-> TRUE, value |-> NaNFrac]
    ELSE LET monthly_data ==
                 SelectSeq(data, LAMBDA r :
                     /\ r.timestamp # NaT
                     /\ r.timestamp.month = now.month
                     /\ r.timestamp.year = now.year)
         IN  IF Len(monthly_data) = 0
             THEN [raised |-> FALSE, value |-> Mean(data, "rainfall_mm")]
             ELSE [raised |-> FALSE, value |-> Mean(monthly_data, "rainfall_mm")]

get_monthly_average(data, now) ==
    IF Empty(data) THEN [raised |-> FALSE, value |-> Zero]
    ELSE IF ~(CanonicalColumns \subseteq Columns(data))
    THEN [raised |-> TRUE, value |-> NaNFrac]
    ELSE LET monthly_data ==
                 SelectSeq(data, LAMBDA r :
                     /\ r.timestamp # NaT
                     /\ r.timestamp.month = now.month
                     /\ r.timestamp.year = now.year)
         IN  IF Len(monthly_data) = 0
             THEN [raised |-> FALSE, value |-> Mean(data, "rainfall_mm")]
             ELSE [raised |-> FALSE, value |-> Mean(monthly_data, "rainfall_mm")]

\* sort_values('excess_rainfall', ascending=False): insertion of row into a
\* descending table, after the rows that are not smaller
RECURSIVE InsertDescending(_, _)
InsertDescending(sorted, row) ==
    IF Len(sorted) = 0 THEN <<row>>
    ELSE IF FracGT(row.excess_rainfall, Head(sorted).excess_rainfall)
    THEN <<row>> \o sorted
    ELSE <<Head(sorted)>> \o InsertDescending(Tail(sorted), row)

RECURSIVE SortByExcess(_)
SortByExcess(rows) ==
    IF Len(rows) = 0 THEN <<>>
    ELSE InsertDescending(SortByExcess(SubSeq(rows, 1, Len(rows) - 1)), rows[Len(rows)])

\* (variant of the alert test that also flags a mean equal to the threshold)
ExceedsOrEquals(average, threshold) == ~FracGT(threshold, average.rainfall_mm)

\* station_averages['rainfall_mm'] > threshold
Exceeds(average, threshold) == FracGT(average.rainfall_mm, threshold)

get_alert_areas(data, threshold_multiplier, now) ==
    IF Empty(data) THEN [raised |-> FALSE, value |-> <<>>, threshold |-> Zero]
    ELSE IF ~(CanonicalColumns \subseteq Columns(data))
    THEN [raised |-> TRUE, value |-> <<>>, threshold |-> NaNFrac]
    ELSE LET monthly_avg == get_monthly_average(data, now).value
             threshold == FracMul(monthly_avg, threshold_multiplier)
             groups == GroupBy(data, "station")
             station_averages ==
                 [g \in 1..Len(groups) |->
                     [station_id |-> groups[g][1].station_id,
                      station_name |-> groups[g][1].station_name,
                      rainfall_mm |-> Mean(groups[g], "rainfall_mm"),
                      latitude |-> Mean(groups[g], "latitude"),
                      longitude |-> Mean(groups[g], "longitude")]]
             alert_areas == SelectSeq(station_averages,
                                LAMBDA a : Exceeds(a, threshold))
             extended ==
                 [i \in 1..Len(alert_areas) |->
                     [station_id |-> alert_areas[i].station_id,
                      station_name |-> alert_areas[i].station_name,
                      rainfall_mm |-> alert_areas[i].rainfall_mm,
                      latitude |-> alert_areas[i].latitude,
                      longitude |-> alert_areas[i].longitude,
                      threshold |-> threshold,
                      excess_rainfall |-> FracSub(alert_areas[i].rainfall_mm, threshold)]]
         IN  [raised |-> FALSE, value |-> SortByExcess(extended), threshold |-> threshold]

\* the instant of a timestamp as a tuple ordered like the instants
Instant(ts) == <<ts.year, ts.month, ts.day, ts.hour, ts.minute>>

\* the timestamps of the table, NaT skipped
KnownTimestamps(data) == {data[i].timestamp : i \in 1..Len(data)} \ {NaT}

\* self.data['timestamp'].min()
TimestampMin(data) ==
    IF KnownTimestamps(data) = {} THEN NaT
    ELSE CHOOSE t \in KnownTimestamps(data) :
            \A o \in KnownTimestamps(data) \ {t} : LexLess(Instant(t), Instant(o))

\* self.data['timestamp'].max()
TimestampMax(data) ==
    IF KnownTimestamps(data) = {} THEN NaT
    ELSE CHOOSE t \in KnownTimestamps(data) :
            \A o \in KnownTimestamps(data) \ {t} : LexLess(Instant(o), Instant(t))

\* std_rainfall holds the square of the sample standard deviation
generate_summary_stats(data) ==
    IF Empty(data) THEN [raised |-> FALSE, value |-> EmptyDict]
    ELSE IF ~(CanonicalColumns \subseteq Columns(data))
    THEN [raised |-> TRUE, value |-> EmptyDict]
    ELSE [raised |-> FALSE,
          value |->
            [total_stations |-> Cardinality({data[i].station_id : i \in 1..Len(data)}),
             total_readings |-> Len(data),
             avg_rainfall |-> Mean(data, "rainfall_mm"),
             max_rainfall |-> CHOOSE x \in {data[i].rainfall_mm : i \in 1..Len(data)} :
                                 \A i \in 1..Len(data) : data[i].rainfall_mm <= x,
             min_rainfall |-> CHOOSE x \in {data[i].rainfall_mm : i \in 1..Len(data)} :
                                 \A i \in 1..Len(data) : data[i].rainfall_mm >= x,
             std_rainfall |-> Var(data, "rainfall_mm"),
             zero_rainfall_readings |->
                 Len(SelectSeq(data, LAMBDA r : r.rainfall_mm = 0)),
             time_range_start |-> TimestampMin(data),
             time_range_end |-> TimestampMax(data)]]

(***************************************************************************)
(* The state machine.                                                      *)
(***************************************************************************)
Init ==
    /\ upstream = [kind |-> "none"]
    /\ api_response = None
    /\ stations_info = EmptyDict
    /\ last_call = "none"
    /\ returned = [raised |-> FALSE, df |-> <<>>]
    /\ fetches = 0
    /\ heap = [r \in {"data", "copy"} |-> <<>>]
    /\ self_data = "none"
    /\ result = [op |-> "none"]

\* api_response = processor.fetch_data()
FetchData ==
    /\ fetches < MaxFetches
    /\ \E u \in Upstream :
        /\ upstream' = u
        /\ api_response' = Response(u)
    /\ fetches' = fetches + 1
    /\ last_call' = "fetch_data"
    /\ returned' = [raised |-> FALSE, df |-> <<>>]
    /\ UNCHANGED <<stations_info, heap, self_data, result>>

\* processor.process_stations(api_response)
ProcessStations ==
    /\ LET out == process_stations(api_response, stations_info)
       IN  /\ stations_info' = out.info
           /\ returned' = [raised |-> out.raised, df |-> out.df]
    /\ last_call' = "process_stations"
    /\ UNCHANGED <<upstream, api_response, fetches, heap, self_data, result>>

\* processor.process_readings(api_response)
ProcessReadings ==
    /\ returned' = process_readings(api_response, stations_info)
    /\ last_call' = "process_readings"
    /\ UNCHANGED <<upstream, api_response, stations_info, fetches, heap, self_data, result>>

\* processor.get_all_data(): fetch_data, process_stations, process_readings
GetAllData ==
    /\ fetches < MaxFetches
    /\ \E u \in Upstream :
        LET out == get_all_data(Response(u), stations_info)
        IN  /\ upstream' = u
            /\ api_response' = Response(u)
            /\ stations_info' = out.info
            /\ returned' = [raised |-> out.raised, df |-> out.df]
    /\ fetches' = fetches + 1
    /\ last_call' = "get_all_data"
    /\ UNCHANGED <<heap, self_data, result>>

\* api_response = processor.fetch_data() on a processor that is kept
PollFetchData ==
    /\ fetches < MaxPolls
    /\ \E u \in Polled :
        /\ upstream' = u
        /\ api_response' = Response(u)
    /\ fetches' = fetches + 1
    /\ last_call' = "fetch_data"
    /\ returned' = [raised |-> FALSE, df |-> <<>>]
    /\ UNCHANGED <<stations_info, heap, self_data, result>>

\* processor.get_all_data() on a processor that is kept
PollGetAllData ==
    /\ fetches < MaxPolls
    /\ \E u \in Polled :
        LET out == get_all_data(Response(u), stations_info)
        IN  /\ upstream' = u
            /\ api_response' = Response(u)
            /\ stations_info' = out.info
            /\ returned' = [raised |-> out.raised, df |-> out.df]
    /\ fetches' = fetches + 1
    /\ last_call' = "get_all_data"
    /\ UNCHANGED <<heap, self_data, result>>

\* what load_rainfall_data can return or raise: get_all_data of a fresh
\* processor on whatever the API serves
LoadOutcomes ==
    {[raised |-> get_all_data(Response(u), EmptyDict).raised,
      df |-> get_all_data(Response(u), EmptyDict).df] : u \in Upstream}

\* app.main, start of a run: data = load_rainfall_data(date), before the
\* analyzer of the run exists.  The processor and the payload are locals of
\* load_rainfall_data; the caller's table is replaced when the call returns
LoadRainfallData ==
    /\ self_data = "none"
    /\ \E out \in LoadOutcomes :
        /\ returned' = out
        /\ heap' = IF out.raised THEN heap ELSE [heap EXCEPT !["data"] = out.df]
    /\ last_call' = "load_rainfall_data"
    /\ UNCHANGED <<upstream, api_response, stations_info, fetches, self_data, result>>

\* app.main returns: the analyzer, a local of the run, is gone with its table
EndRun ==
    /\ self_data # "none"
    /\ self_data' = "none"
    /\ heap' = [heap EXCEPT !["copy"] = <<>>]
    /\ result' = [op |-> "none"]
    /\ last_call' = "main"
    /\ UNCHANGED <<upstream, api_response, stations_info, returned, fetches>>

\* analyzer = RainfallAnalyzer(data)
NewAnalyzer ==
    /\ LET made == RainfallAnalyzer(heap, "data")
       IN  /\ heap' = made.heap
           /\ self_data' = made.self_data
    /\ result' = [op |-> "__init__"]
    /\ last_call' = "RainfallAnalyzer"
    /\ UNCHANGED <<upstream, api_response, stations_info, returned, fetches>>

Multipliers == {Frac(3, 2), Frac(1, 1)}

GetTopRainfallAreas ==
    /\ self_data # "none"
    /\ \E n \in {1, MaxN}, group_nearby \in BOOLEAN :
        LET out == get_top_rainfall_areas(heap[self_data], n, group_nearby)
        IN  /\ heap' = [heap EXCEPT ![self_data] = out.data]
            /\ result' = [op |-> "get_top_rainfall_areas", n |-> n,
                          group_nearby |-> group_nearby,
                          raised |-> out.raised, value |-> out.value]
    /\ last_call' = "get_top_rainfall_areas"
    /\ UNCHANGED <<upstream, api_response, stations_info, returned, fetches, self_data>>

GetLowestRainfallAreas ==
    /\ self_data # "none"
    /\ \E n \in {1, MaxN} :
        LET out == get_lowest_rainfall_areas(heap[self_data], n)
        IN  result' = [op |-> "get_lowest_rainfall_areas", n |-> n,
                       raised |-> out.raised, value |-> out.value]
    /\ last_call' = "get_lowest_rainfall_areas"
    /\ UNCHANGED <<upstream, api_response, stations_info, returned, fetches, heap, self_data>>

GetHourlyDistribution ==
    /\ self_data # "none"
    /\ LET out == get_hourly_distribution(heap[self_data])
       IN  result' = [op |-> "get_hourly_distribution",
                      raised |-> out.raised, value |-> out.value]
    /\ last_call' = "get_hourly_distribution"
    /\ UNCHANGED <<upstream, api_response, stations_info, returned, fetches, heap, self_data>>

GetMonthlyAverage ==
    /\ self_data # "none"
    /\ \E now \in Clock :
        LET out == get_monthly_average(heap[self_data], now)
        IN  result' = [op |-> "get_monthly_average", now |-> now,
                       raised |-> out.raised, value |-> out.value]
    /\ last_call' = "get_monthly_average"
    /\ UNCHANGED <<upstream, api_response, stations_info, returned, fetches, heap, self_data>>

GetAlertAreas ==
    /\ self_data # "none"
    /\ \E m \in Multipliers, now \in Clock :
        LET out == get_alert_areas(heap[self_data], m, now)
        IN  result' = [op |-> "get_alert_areas", threshold_multiplier |-> m, now |-> now,
                       raised |-> out.raised, value |-> out.value,
                       threshold |-> out.threshold]
    /\ last_call' = "get_alert_areas"
    /\ UNCHANGED <<upstream, api_response, stations_info, returned, fetches, heap, self_data>>

GenerateSummaryStats ==
    /\ self_data # "none"
    /\ LET out == generate_summary_stats(heap[self_data])
       IN  result' = [op |-> "generate_summary_stats",
                      raised |-> out.raised, value |-> out.value]
    /\ last_call' = "generate_summary_stats"
    /\ UNCHANGED <<upstream, api_response, stations_info, returned, fetches, heap, self_data>>

\* the processor's interface
Next ==
    \/ FetchData
    \/ ProcessStations
    \/ ProcessReadings
    \/ GetAllData

Spec == Init /\ [][Next]_vars

\* the dashboard: runs of main, each loading a table with a fresh processor
\* and analysing the caller's table with an analyzer of its own
NextApp ==
    \/ LoadRainfallData
    \/ NewAnalyzer
    \/ GetTopRainfallAreas
    \/ GetLowestRainfallAreas
    \/ GetHourlyDistribution
    \/ GetMonthlyAverage
    \/ GetAlertAreas
    \/ GenerateSummaryStats
    \/ EndRun

SpecApp == Init /\ [][NextApp]_vars

\* one processor, kept and polled up to MaxPolls times
NextPolled ==
    \/ PollFetchData
    \/ ProcessStations
    \/ ProcessReadings
    \/ PollGetAllData

SpecPolled == Init /\ [][NextPolled]_vars

(***************************************************************************)
(* Properties of the ingestion pipeline.                                   *)
(***************************************************************************)
IsPayload == upstream.kind = "payload"

\* a bucket of the logical data whose timestamp is present and parseable
ValidBucket(b) == "ts" \in DOMAIN b /\ b.ts \in DOMAIN Calendar

\* the well-formed per-station values of a bucket
WellFormedPoints(b) == SelectSeq(b.points, IsDict)

\* the per-station reading values of the payload whose bucket timestamp is valid
ParseableReadings(d) ==
    SumSeq([i \in 1..Len(d.readings) |->
        IF ValidBucket(d.readings[i]) THEN Len(WellFormedPoints(d.readings[i])) ELSE 0])

SameDict(a, b) == DOMAIN a = DOMAIN b /\ \A k \in DOMAIN a : a[k] = b[k]

\* C1: the table get_all_data returns has one row per reading value of the
\* payload whose bucket timestamp is valid: no parseable reading is lost,
\* also when the stations collection is empty or omits the reading's station.
C1_NoParseableReadingLost ==
    (last_call = "get_all_data" /\ IsPayload /\ ~returned.raised)
        => Len(returned.df) = ParseableReadings(upstream.d)

\* C2: in process_stations and process_readings a malformed entry never
\* raises, and every well-formed entry of the payload is still processed:
\* each well-formed station is recorded, each well-formed value of a bucket
\* with a valid timestamp becomes a row.
C2_MalformedEntrySkipped ==
    (IsPayload /\ upstream.n = Primary) =>
        /\ last_call = "process_stations" =>
            /\ ~returned.raised
            /\ \A i \in 1..Len(upstream.d.stations) :
                  IsDict(upstream.d.stations[i])
                      => upstream.d.stations[i].id \in DOMAIN stations_info
        /\ last_call = "process_readings" =>
            /\ ~returned.raised
            /\ Len(returned.df) >= ParseableReadings(upstream.d)

\* C3: a bucket whose timestamp is missing or unparsable contributes no row
\* to the table of process_readings: no row has a null timestamp and the
\* rows are those of the buckets with a valid timestamp.
C3_NoRowWithoutTimestamp ==
    (last_call = "process_readings" /\ IsPayload /\ ~returned.raised) =>
        /\ \A i \in 1..Len(returned.df) : returned.df[i].timestamp # NaT
        /\ Len(returned.df) <= ParseableReadings(upstream.d)

\* C10: process_stations followed by process_readings gives the same station
\* records and the same rows whichever supported alias names each field.
C10_AliasTolerance ==
    (last_call = "get_all_data" /\ IsPayload) =>
        \A n \in Namings :
            LET other == get_all_data(Render(upstream.d, n), EmptyDict)
            IN  /\ other.raised = returned.raised
                /\ other.df = returned.df
                /\ SameDict(other.info, stations_info)

(***************************************************************************)
(* Properties of the aggregation engine.                                   *)
(***************************************************************************)
HasAnalyzer == self_data # "none"

\* the table the analyzer works on
Working == heap[self_data]

StationIds(data) == {data[i].station_id : i \in 1..Len(data)}

RowsOf(data, id) == SelectSeq(data, LAMBDA r : r.station_id = id)

\* C4: the table the analyzer works on keeps the columns it had at
\* construction; no call leaves lat_group or lon_group behind.
C4_NoTransientColumns ==
    HasAnalyzer => Columns(Working) \in {{}, CanonicalColumns}

\* C5: neither constructing the analyzer nor any of its operations changes
\* the table the caller passed: its rows and columns stay as they were.
C5_CallerTableUnchanged ==
    [][last_call' # "load_rainfall_data" => heap'["data"] = heap["data"]]_vars

\* C5 witness: a ranking with group_nearby has run on a copy of a non-empty
\* table: the copy carries the grouping columns, the caller's table does not.
C5_Witness ==
    /\ HasAnalyzer
    /\ result.op = "get_top_rainfall_areas"
    /\ result.group_nearby
    /\ Len(heap["data"]) > 0
    /\ "lat_group" \in Columns(Working)
    /\ Columns(heap["data"]) = CanonicalColumns

\* C6: on an empty table the rankings and the hourly distribution return an
\* empty table, the monthly average is 0, the alerts are empty with
\* threshold 0, the summary is empty, and nothing raises.
C6_EmptyTableNeutral ==
    (HasAnalyzer /\ Empty(Working) /\ result.op \notin {"none", "__init__"}) =>
        /\ ~result.raised
        /\ result.op \in {"get_top_rainfall_areas", "get_lowest_rainfall_areas",
                          "get_hourly_distribution"} => Len(result.value) = 0
        /\ result.op = "get_monthly_average" => result.value = Frac(0, 1)
        /\ result.op = "get_alert_areas" =>
              Len(result.value) = 0 /\ result.threshold = Frac(0, 1)
        /\ result.op = "generate_summary_stats" => DOMAIN result.value = {}

\* C6 witness: the alerts were asked of an analyzer built on an empty table.
C6_Witness ==
    /\ HasAnalyzer
    /\ Empty(Working)
    /\ result.op = "get_alert_areas"
    /\ last_call = "get_alert_areas"

\* C7: the hourly distribution has at most 24 rows, ascending by hour, one
\* per distinct hour of the table, and its total_rainfall sums to the
\* rainfall_mm of all rows of the table.
C7_HourlyDistribution ==
    (HasAnalyzer /\ result.op = "get_hourly_distribution") =>
        LET hourly == result.value IN
        /\ ~result.raised
        /\ Len(hourly) <= 24
        /\ \A i \in 1..(Len(hourly) - 1) : hourly[i].hour < hourly[i + 1].hour
        /\ {hourly[i].hour : i \in 1..Len(hourly)}
              = {Working[i].hour : i \in 1..Len(Working)} \ {NaN}
        /\ Sum(hourly, "total_rainfall") = Sum(Working, "rainfall_mm")

\* C8: for N at least the number of groups, the top and the bottom ranking
\* each hold every group exactly once, the top descending and the bottom
\* ascending by total_rainfall, also when the top is grouped by proximity.
C8_RankingsComplementary ==
    (HasAnalyzer /\ result.op = "get_top_rainfall_areas"
        /\ result.n >= Cardinality(StationIds(Working))) =>
        LET top == result.value
            bottom == get_lowest_rainfall_areas(Working, result.n).value
        IN  /\ ~result.raised
            /\ Len(top) = Cardinality(StationIds(Working))
            /\ Len(bottom) = Cardinality(StationIds(Working))
            /\ {bottom[i].station_id : i \in 1..Len(bottom)} = StationIds(Working)
            /\ {top[i].station_name : i \in 1..Len(top)}
                  = {bottom[i].station_name : i \in 1..Len(bottom)}
            /\ \A i \in 1..(Len(top) - 1) :
                  top[i].total_rainfall >= top[i + 1].total_rainfall
            /\ \A i \in 1..(Len(bottom) - 1) :
                  bottom[i].total_rainfall <= bottom[i + 1].total_rainfall

PayloadStationIds(d) ==
    {Get(d.stations[i], "id", "unknown") : i \in 1..Len(d.stations)}

\* C11: after process_stations or get_all_data the station lookup holds
\* exactly the stations of the payload just processed, and no row of the
\* table carries the name or coordinates of a station that this payload does
\* not list.
C11_LookupRebuiltOnEveryFetch ==
    (IsPayload /\ last_call \in {"process_stations", "get_all_data"}
        /\ ~returned.raised) =>
        /\ DOMAIN stations_info = PayloadStationIds(upstream.d)
        /\ last_call = "get_all_data" =>
              \A i \in 1..Len(returned.df) :
                  returned.df[i].station_id \notin PayloadStationIds(upstream.d) =>
                      /\ returned.df[i].latitude = 0
                      /\ returned.df[i].longitude = 0
                      /\ returned.df[i].station_name
                            = "Station_" \o returned.df[i].station_id

\* the per-station values of the data, bucket after bucket
RECURSIVE AllPoints(_)
AllPoints(readings) ==
    IF Len(readings) = 0 THEN <<>>
    ELSE Head(readings).points \o AllPoints(Tail(readings))

\* C12: process_readings emits one row per reading value; a row whose
\* station identifier is a key of the lookup carries that station's name,
\* latitude and longitude, and a row whose identifier is no key of the
\* lookup has latitude 0, longitude 0 and the name "Station_" + identifier.
C12_UnmatchedReadingKept ==
    (last_call = "process_readings" /\ ~returned.raised) =>
        /\ IsPayload =>
              /\ Len(returned.df) = Len(AllPoints(upstream.d.readings))
              /\ \A i \in 1..Len(returned.df) :
                    returned.df[i].station_id
                        = Get(AllPoints(upstream.d.readings)[i], "id", "unknown")
        /\ \A i \in 1..Len(returned.df) :
              LET row == returned.df[i] IN
              IF row.station_id \in DOMAIN stations_info
              THEN /\ row.station_name = stations_info[row.station_id].name
                   /\ row.latitude = stations_info[row.station_id].latitude
                   /\ row.longitude = stations_info[row.station_id].longitude
              ELSE /\ row.station_name = "Station_" \o row.station_id
                   /\ row.latitude = 0
                   /\ row.longitude = 0

\* C12 witness: process_readings ran on a payload with values for S1 and S2
\* while the lookup holds S1 only: the S1 row carries the name Alpha and the
\* station's coordinates, the S2 row the fallback.
C12_Witness ==
    /\ last_call = "process_readings"
    /\ ~returned.raised
    /\ DOMAIN stations_info = {"S1"}
    /\ Len(returned.df) = 2
    /\ returned.df[1].station_id = "S1"
    /\ returned.df[1].station_name = "Alpha"
    /\ returned.df[1].latitude = 1300
    /\ returned.df[2].station_id = "S2"
    /\ returned.df[2].station_name = "Station_S2"
    /\ returned.df[2].latitude = 0
    /\ returned.df[2].longitude = 0

\* C13: a payload that is absent (failed fetch), has no data container or a
\* null one, or has neither stations nor readings makes process_stations,
\* process_readings and get_all_data return an empty output without raising.
C13_NoPayloadGivesEmptyOutput ==
    (upstream.kind \in {"failed", "empty", "nulldata", "nocollections"}
        /\ last_call \in {"process_stations", "process_readings", "get_all_data"}) =>
        /\ ~returned.raised
        /\ Len(returned.df) = 0

\* the data has a station entry without identifier
HasAnonymousStation(d) ==
    \E i \in 1..Len(d.stations) :
        IsDict(d.stations[i]) /\ "id" \notin DOMAIN d.stations[i]

\* C14: what a fresh processor makes of a payload whose entries carry no
\* identifier differs from what it makes of the same payload with the
\* upstream identifier "unknown" in their place, and every station entry
\* without identifier has a station record of its own.
C14_PlaceholderTaggedSynthetic ==
    (IsPayload /\ last_call = "get_all_data" /\ fetches = 1 /\ ~returned.raised
        /\ HasAnonymousStation(upstream.d)) =>
        LET literal == get_all_data(Render(WithLiteralUnknown(upstream.d), upstream.n),
                                    EmptyDict)
        IN  /\ ~(literal.df = returned.df /\ SameDict(literal.info, stations_info))
            /\ Cardinality(DOMAIN stations_info) = Len(upstream.d.stations)

\* C15: when the station entry and the reading value of a payload carry the
\* same identifier aliases with the same values, 'id' and 'stationId' at
\* once, process_stations and process_readings pick the same identifier:
\* the row's station_id is the key of the station record and the row
\* carries that record's name and coordinates.
C15_SameAliasPriority ==
    (upstream.kind = "raw" /\ last_call = "get_all_data" /\ fetches = 1
        /\ ~returned.raised) =>
        /\ Len(returned.df) = 1
        /\ DOMAIN stations_info = {returned.df[1].station_id}
        /\ returned.df[1].station_name = "Alpha"
        /\ returned.df[1].latitude = 1300
        /\ returned.df[1].longitude = 103800

====
